---- MODULE Spec2Model ----
(***************************************************************************)
(* const-combinations: the lazy combination-index generator, the Heap's    *)
(* algorithm permutation-index generator, and the adapters that drive them *)
(* over a resumable source (Combinations, Permutations) or over a slice    *)
(* (SliceCombinations, SlicePermutations).                                 *)
(*                                                                         *)
(* Arrays [usize; K] are functions over 0..K-1 (the source's zero-based    *)
(* positions); Vec and slices are sequences, so position p of the source   *)
(* is element p+1 of the sequence.  Option<T> is <<>> (None) or <<x>>      *)
(* (Some(x)).  usize arithmetic is not wrapped: every index is bounded by  *)
(* the buffer length plus one, far from 2^64.                              *)
(***************************************************************************)
EXTENDS Integers, Sequences, FiniteSets, TLC

\* Bounds of the model.
MaxN == 5
MaxK == 4
ExtraSteps == 2
MaxNones == 2
MaxCombSteps == 24
MaxCount == 8

VARIABLES
    mode,         \* which object of the crate this behaviour drives
    K,            \* the const generic width (K, or N of LazyPermutationGenerator)
    src,          \* ResumeIter.items / the slice: every item there will ever be
    len,          \* ResumeIter.len: how many items the source delivers for now
    iter_i,       \* ResumeIter.i: how many items the source has delivered
    items,        \* Combinations.items / Permutations.items (Vec), or the slice
    comb_gen,     \* LazyCombinationGenerator<K> {indices, done}
    perm_gen,     \* LazyPermutationGenerator<K> {indices, counters, done}
    out,          \* history: the tuples returned so far, [idx, val] each
    last,         \* history: what the latest pull returned: "init", "some", "none"
                  \* (or "panic": an index out of bounds aborted the program)
    pull_len,     \* history: the value of len the latest pull ran with
    interrupted,  \* history: the source answered None although items remain
    nones,        \* history: how many pulls in a row returned None (up to MaxNones)
    combs,        \* lib.rs Combinations {done, buffer, indices, first} (its iter
                  \* is the source src, len, iter_i); None where there is none
    full_perm,    \* lib.rs FullPermutations {a, c, i, first}, as the Option
                  \* Permutations.perm_iter is
    polled,       \* history: the answers the source gave to the polls of the latest
                  \* pull, in order (Some(item) or None)
    count,        \* a call of combination_count: its arguments n and k, and res,
                  \* Some(what it returned) once it has returned; None where
                  \* there is no such call
    hint          \* Some(h) for what size_hint() returned in this state (h is
                  \* Some(hint), or None for a panic); None when it was not asked

\* The state of the objects of lib.rs.
lib_vars == <<combs, full_perm, hint>>

vars == <<mode, K, src, len, iter_i, items, comb_gen, perm_gen, out, last,
          pull_len, interrupted, nones, lib_vars, polled, count>>

-----------------------------------------------------------------------------
\* Option<T>
None == <<>>

Some(x) == <<x>>

\* Option's derived ordering: None is below every Some.
Option_ge(a, b) ==
    IF b = None THEN TRUE
    ELSE IF a = None THEN FALSE
    ELSE a[1] >= b[1]

\* An array held as an explicit value: f @@ <<>> is f, and TLC evaluates it to
\* the table of its elements, as an array in memory is, instead of keeping the
\* expression that defines it.
Array(f) == f @@ <<>>

\* make_array(|i| i)
make_array_identity(k) == Array([i \in 0..(k - 1) |-> i])

\* a.saturating_sub(b)
saturating_sub(a, b) == IF a >= b THEN a - b ELSE 0

\* slice.swap(a, b)
swap(arr, a, b) == [arr EXCEPT ![a] = arr[b], ![b] = arr[a]]

-----------------------------------------------------------------------------
\* LazyCombinationGenerator<K>

LazyCombinationGenerator_new(k) ==
    [indices |-> make_array_identity(k), done |-> FALSE]

\* self.indices.last().copied()
max_index(gen, k) == IF k = 0 THEN None ELSE Some(gen.indices[k - 1])

\* is_done that lets the largest index equal the item count.
is_done_strict(gen, k, item_count) ==
    gen.done \/ Option_ge(max_index(gen, k), Some(item_count + 1))

is_done(gen, k, item_count) ==
    gen.done \/ Option_ge(max_index(gen, k), Some(item_count))

RECURSIVE comb_step_loop_no_reset(_, _, _)
\* step() without the reset of the consecutive run.
comb_step_loop_no_reset(indices, k, i) ==
    IF i + 1 < k /\ indices[i] + 1 = indices[i + 1]
    THEN comb_step_loop_no_reset(indices, k, i + 1)
    ELSE [indices EXCEPT ![i] = indices[i] + 1]

\* The loop of step() resetting the consecutive indices to 0 instead of i.
RECURSIVE comb_step_loop_reset_zero(_, _, _)
comb_step_loop_reset_zero(indices, k, i) ==
    IF i + 1 < k /\ indices[i] + 1 = indices[i + 1]
    THEN comb_step_loop_reset_zero([indices EXCEPT ![i] = 0], k, i + 1)
    ELSE [indices EXCEPT ![i] = indices[i] + 1]

\* step() without its loop: it always increments the first index.
comb_step_loop_first_only(indices, k, i) ==
    [indices EXCEPT ![0] = indices[0] + 1]

\* The while loop of step(): reset consecutive indices, then increment.
RECURSIVE comb_step_loop(_, _, _)
comb_step_loop(indices, k, i) ==
    IF i + 1 < k /\ indices[i] + 1 = indices[i + 1]
    THEN comb_step_loop([indices EXCEPT ![i] = i], k, i + 1)
    ELSE [indices EXCEPT ![i] = indices[i] + 1]

\* step() that always increments the largest index.
comb_step_last_only(gen, k) ==
    IF k = 0
    THEN [gen EXCEPT !.done = TRUE]
    ELSE [gen EXCEPT !.indices[k - 1] = gen.indices[k - 1] + 1]

\* step() that forgets to mark the K = 0 generator done.
comb_step_no_done(gen, k) ==
    IF k = 0
    THEN gen
    ELSE [gen EXCEPT !.indices = comb_step_loop(gen.indices, k, 0)]

comb_step(gen, k) ==
    IF k = 0
    THEN [gen EXCEPT !.done = TRUE]
    ELSE [gen EXCEPT !.indices = comb_step_loop(gen.indices, k, 0)]

-----------------------------------------------------------------------------
\* LazyPermutationGenerator<N>

LazyPermutationGenerator_new(n) ==
    [indices |-> make_array_identity(n),
     counters |-> Array([i \in 0..(n - 1) |-> 0]),
     done |-> FALSE]

\* The while loop of step() letting counters[i] pass i before it resets it.
RECURSIVE perm_step_loop_late_reset(_, _, _)
perm_step_loop_late_reset(counters, n, i) ==
    IF i < n /\ counters[i] > i
    THEN perm_step_loop_late_reset([counters EXCEPT ![i] = 0], n, i + 1)
    ELSE [counters |-> counters, i |-> i]

\* The while loop of step(): zero the counters that completed, stop at i.
RECURSIVE perm_step_loop(_, _, _)
perm_step_loop(counters, n, i) ==
    IF i < n /\ counters[i] >= i
    THEN perm_step_loop([counters EXCEPT ![i] = 0], n, i + 1)
    ELSE [counters |-> counters, i |-> i]

\* step() that swaps with position 0 whatever the parity of i.
perm_step_swap_zero(gen, n) ==
    LET s == perm_step_loop(gen.counters, n, 1)
        i == s.i
    IN  IF i < n
        THEN [indices  |-> swap(gen.indices, i, 0),
              counters |-> [s.counters EXCEPT ![i] = s.counters[i] + 1],
              done     |-> gen.done]
        ELSE [indices |-> gen.indices, counters |-> s.counters, done |-> TRUE]

\* step() whose swap branch marks the generator not done.
perm_step_undone(gen, n) ==
    LET s == perm_step_loop(gen.counters, n, 1)
        i == s.i
    IN  IF i < n
        THEN [indices  |-> IF i % 2 = 0
                           THEN swap(gen.indices, i, 0)
                           ELSE swap(gen.indices, i, s.counters[i]),
              counters |-> [s.counters EXCEPT ![i] = s.counters[i] + 1],
              done     |-> FALSE]
        ELSE [indices |-> gen.indices, counters |-> s.counters, done |-> TRUE]

perm_step(gen, n) ==
    LET s == perm_step_loop(gen.counters, n, 1)
        i == s.i
    IN  IF i < n
        THEN [indices  |-> IF i % 2 = 0
                           THEN swap(gen.indices, i, 0)
                           ELSE swap(gen.indices, i, s.counters[i]),
              counters |-> [s.counters EXCEPT ![i] = s.counters[i] + 1],
              done     |-> gen.done]
        ELSE [indices |-> gen.indices, counters |-> s.counters, done |-> TRUE]

-----------------------------------------------------------------------------
\* The resumable source of the tests (ResumeIter) and Iterator::take.

\* ResumeIter::next at position i, over items s of which l are deliverable:
\* None once i >= len, else items[i].
ResumeIter_next(s, l, i) == IF i >= l THEN None ELSE Some(s[i + 1])

\* self.iter.by_ref().take(n), collected: polls until n items or the first None.
RECURSIVE take(_, _, _, _)
take(n, s, l, i) ==
    IF n = 0 THEN <<>>
    ELSE LET x == ResumeIter_next(s, l, i)
         IN  IF x = None THEN <<>> ELSE <<x[1]>> \o take(n - 1, s, l, i + 1)

\* The answers the source gives to the polls of take(n): one poll per item, and
\* no poll after n items or after the first None.
RECURSIVE take_polls(_, _, _, _)
take_polls(n, s, l, i) ==
    IF n = 0 THEN <<>>
    ELSE LET x == ResumeIter_next(s, l, i)
         IN  IF x = None THEN <<None>> ELSE <<x>> \o take_polls(n - 1, s, l, i + 1)

\* The source answered None to one of the polls.
AnsweredNone(answers) == \E p \in 1..Len(answers) : answers[p] = None

\* The answers the source gives during the buffer fill of one next().
fill_polls(gen, k, buf, s, l, i) ==
    IF k > 0
    THEN LET missing_count == saturating_sub(max_index(gen, k)[1] + 1, Len(buf))
         IN  IF missing_count > 0 THEN take_polls(missing_count, s, l, i) ELSE <<>>
    ELSE <<>>

\* A fill that buffers everything the source can deliver.
fill_all(gen, k, buf, s, l, i) ==
    IF k > 0 THEN buf \o take(l - i, s, l, i) ELSE buf

\* A fill that buffers the first K items and never asks for more.
fill_width_only(gen, k, buf, s, l, i) ==
    IF k > 0
    THEN LET missing_count == saturating_sub(k, Len(buf))
         IN  IF missing_count > 0 THEN buf \o take(missing_count, s, l, i) ELSE buf
    ELSE buf

\* The buffer fill at the head of Combinations::next and Permutations::next.
fill(gen, k, buf, s, l, i) ==
    IF k > 0
    THEN LET missing_count == saturating_sub(max_index(gen, k)[1] + 1, Len(buf))
         IN  IF missing_count > 0 THEN buf \o take(missing_count, s, l, i) ELSE buf
    ELSE buf

-----------------------------------------------------------------------------
\* items[p] panics when p is out of bounds.
Panic == <<"panic", "index out of bounds">>

InBounds(idx, k, buf) == \A i \in 0..(k - 1) : idx[i] < Len(buf)

\* make_array(|i| f(&items[idx[i]])), with f the clone or the borrow
make_array_items(idx, k, buf) ==
    IF InBounds(idx, k, buf)
    THEN Some([i \in 0..(k - 1) |-> buf[idx[i] + 1]])
    ELSE Panic

\* get_and_step that advances the generator although it returns None.
comb_get_and_step_steps_on_none(gen, k, buf) ==
    IF is_done(gen, k, Len(buf))
    THEN [res |-> None, idx |-> None, comb_gen |-> comb_step(gen, k)]
    ELSE LET indices == gen.indices
             res == make_array_items(indices, k, buf)
         IN  [res |-> res,
              idx |-> Some(indices),
              comb_gen |-> IF res = Panic THEN gen ELSE comb_step(gen, k)]

\* get_and_step that starts over from the first combination when it returns None.
comb_get_and_step_restarts(gen, k, buf) ==
    IF is_done(gen, k, Len(buf))
    THEN [res |-> None, idx |-> None, comb_gen |-> LazyCombinationGenerator_new(k)]
    ELSE LET indices == gen.indices
             res == make_array_items(indices, k, buf)
         IN  [res |-> res,
              idx |-> Some(indices),
              comb_gen |-> IF res = Panic THEN gen ELSE comb_step(gen, k)]

\* get_and_step that takes items of equal value for one item: it returns None
\* instead of a tuple that would hold a value twice.
comb_get_and_step_by_value(gen, k, buf) ==
    IF is_done(gen, k, Len(buf))
       \/ (InBounds(gen.indices, k, buf)
           /\ \E i \in 0..(k - 1) : \E j \in 0..(k - 1) :
                  i # j /\ buf[gen.indices[i] + 1] = buf[gen.indices[j] + 1])
    THEN [res |-> None, idx |-> None, comb_gen |-> gen]
    ELSE LET indices == gen.indices
             res == make_array_items(indices, k, buf)
         IN  [res |-> res,
              idx |-> Some(indices),
              comb_gen |-> IF res = Panic THEN gen ELSE comb_step(gen, k)]

\* combinations.rs State<K>::get_and_step: the result and the generator after it
\* (idx: the positions the result was read from).
comb_get_and_step(gen, k, buf) ==
    IF is_done(gen, k, Len(buf))
    THEN [res |-> None, idx |-> None, comb_gen |-> gen]
    ELSE LET indices == gen.indices
             res == make_array_items(indices, k, buf)
         IN  [res |-> res,
              idx |-> Some(indices),
              comb_gen |-> IF res = Panic THEN gen ELSE comb_step(gen, k)]

\* get_and_step that leaves the exhausted permutation generator in place.
perm_get_and_step_no_reset(cgen, pgen, k, buf) ==
    IF is_done(cgen, k, Len(buf))
    THEN [res |-> None, idx |-> None, comb_gen |-> cgen, perm_gen |-> pgen]
    ELSE LET comb_indices == cgen.indices
             perm_indices == pgen.indices
             idx == [i \in 0..(k - 1) |-> comb_indices[perm_indices[i]]]
             res == make_array_items(idx, k, buf)
             stepped == perm_step(pgen, k)
         IN  IF res = Panic
             THEN [res |-> res, idx |-> Some(idx), comb_gen |-> cgen, perm_gen |-> pgen]
             ELSE [res |-> res,
                   idx |-> Some(idx),
                   comb_gen |-> IF stepped.done THEN comb_step(cgen, k) ELSE cgen,
                   perm_gen |-> stepped]

\* get_and_step that moves to the next combination although it returns None.
perm_get_and_step_steps_on_none(cgen, pgen, k, buf) ==
    IF is_done(cgen, k, Len(buf))
    THEN [res |-> None, idx |-> None, comb_gen |-> comb_step(cgen, k), perm_gen |-> pgen]
    ELSE LET comb_indices == cgen.indices
             perm_indices == pgen.indices
             idx == [i \in 0..(k - 1) |-> comb_indices[perm_indices[i]]]
             res == make_array_items(idx, k, buf)
             stepped == perm_step(pgen, k)
         IN  IF res = Panic
             THEN [res |-> res, idx |-> Some(idx), comb_gen |-> cgen, perm_gen |-> pgen]
             ELSE [res |-> res,
                   idx |-> Some(idx),
                   comb_gen |-> IF stepped.done THEN comb_step(cgen, k) ELSE cgen,
                   perm_gen |-> IF stepped.done THEN LazyPermutationGenerator_new(k)
                                ELSE stepped]

\* get_and_step that reads the combination through the inverse of the
\* permutation indices.
perm_get_and_step_inverse(cgen, pgen, k, buf) ==
    IF is_done(cgen, k, Len(buf))
    THEN [res |-> None, idx |-> None, comb_gen |-> cgen, perm_gen |-> pgen]
    ELSE LET comb_indices == cgen.indices
             perm_indices == pgen.indices
             idx == [i \in 0..(k - 1) |->
                        comb_indices[CHOOSE j \in 0..(k - 1) : perm_indices[j] = i]]
             res == make_array_items(idx, k, buf)
             stepped == perm_step(pgen, k)
         IN  IF res = Panic
             THEN [res |-> res, idx |-> Some(idx), comb_gen |-> cgen, perm_gen |-> pgen]
             ELSE [res |-> res,
                   idx |-> Some(idx),
                   comb_gen |-> IF stepped.done THEN comb_step(cgen, k) ELSE cgen,
                   perm_gen |-> IF stepped.done THEN LazyPermutationGenerator_new(k)
                                ELSE stepped]

\* permutations.rs State<K>::get_and_step: the result and both generators after it.
perm_get_and_step(cgen, pgen, k, buf) ==
    IF is_done(cgen, k, Len(buf))
    THEN [res |-> None, idx |-> None, comb_gen |-> cgen, perm_gen |-> pgen]
    ELSE LET comb_indices == cgen.indices
             perm_indices == pgen.indices
             idx == [i \in 0..(k - 1) |-> comb_indices[perm_indices[i]]]
             res == make_array_items(idx, k, buf)
             stepped == perm_step(pgen, k)
         IN  IF res = Panic
             THEN [res |-> res, idx |-> Some(idx), comb_gen |-> cgen, perm_gen |-> pgen]
             ELSE [res |-> res,
                   idx |-> Some(idx),
                   comb_gen |-> IF stepped.done THEN comb_step(cgen, k) ELSE cgen,
                   perm_gen |-> IF stepped.done THEN LazyPermutationGenerator_new(k)
                                ELSE stepped]

\* History bookkeeping shared by the pulls: what was returned.
Record(r) ==
    /\ last' = IF r.res = None THEN "none"
               ELSE IF r.res = Panic THEN "panic" ELSE "some"
    /\ out' = IF r.res = None \/ r.res = Panic THEN out
              ELSE Append(out, [idx |-> r.idx[1], val |-> r.res[1]])
    /\ nones' = IF r.res = None
                THEN (IF nones < MaxNones THEN nones + 1 ELSE nones)
                ELSE 0

\* History: a fill from buf to buf2 was answered None while the source has
\* items it has not made deliverable yet.
fill_interrupted(gen, k, buf2) ==
    /\ k > 0
    /\ Len(buf2) < max_index(gen, k)[1] + 1
    /\ len < Len(src)

-----------------------------------------------------------------------------
\* lib.rs: the eager Combinations, FullPermutations and Permutations, and their
\* size hints.  A size hint (usize, Option<usize>) is the pair <<lower, upper>>.
\* The counts of this model stay far below 2^64: checked_mul and checked_div
\* never return None for overflow here.

\* usize::checked_mul
checked_mul(a, b) == Some(a * b)

\* usize::checked_div: None when dividing by zero
checked_div(a, b) == IF b = 0 THEN None ELSE Some(a \div b)

\* usize a - b: below zero it panics where overflow checks are compiled in
\* (debug builds: None here) and wraps where they are not (release builds).  A
\* usize that wrapped is held as the negative integer congruent to it modulo
\* 2^64: -d is the usize 2^64 - d, and wrapping sums are sums of integers.
usize_sub(a, b, overflow_checks) ==
    IF a >= b \/ ~overflow_checks THEN Some(a - b) ELSE None

\* The loop of combination_count dividing before it multiplies.
RECURSIVE combination_count_loop_div_first(_, _, _, _)
combination_count_loop_div_first(n, k, i, res) ==
    IF i >= k THEN Some(res)
    ELSE LET d == checked_div(res, i + 1)
         IN  IF d = None THEN None
             ELSE LET m == checked_mul(d[1], n - i)
                  IN  IF m = None THEN None
                      ELSE combination_count_loop_div_first(n, k, i + 1, m[1])

\* The for loop of combination_count from round i on: None as soon as a
\* checked operation fails (the ? operator).
RECURSIVE combination_count_loop(_, _, _, _)
combination_count_loop(n, k, i, res) ==
    IF i >= k THEN Some(res)
    ELSE LET m == checked_mul(res, n - i)
         IN  IF m = None THEN None
             ELSE LET d == checked_div(m[1], i + 1)
                  IN  IF d = None THEN None
                      ELSE combination_count_loop(n, k, i + 1, d[1])

combination_count(n, k) ==
    IF n < k THEN Some(0)
    ELSE combination_count_loop(n, IF k <= n - k THEN k ELSE n - k, 0, 1)

\* The for loop of permutation_count from factor i on.
RECURSIVE permutation_count_loop(_, _, _)
permutation_count_loop(i, n, res) ==
    IF i > n THEN Some(res)
    ELSE LET m == checked_mul(res, i)
         IN  IF m = None THEN None ELSE permutation_count_loop(i + 1, n, m[1])

permutation_count(n, k) ==
    IF n < k THEN Some(0) ELSE permutation_count_loop(n - k + 1, n, 1)

\* size_hint() of a source that knows its length (a range): what is left.
iter_size_hint(l, i) == <<l - i, Some(l - i)>>

\* Combinations::new: the indices 0..N-1, the first N items prefilled.
lib_Combinations_new(k, s, l) ==
    LET buffer == take(k, s, l, 0)
    IN  [indices |-> Array([i \in 0..(k - 1) |-> i]),
         first   |-> TRUE,
         done    |-> Len(buffer) < k,
         buffer  |-> buffer]

\* The while loop of Combinations::next: the rightmost index that can be
\* incremented, None when there is none (the last combination was reached).
RECURSIVE lib_scan(_, _, _, _)
lib_scan(indices, k, blen, i) ==
    IF indices[i] = i + blen - k
    THEN IF i > 0 THEN lib_scan(indices, k, blen, i - 1) ELSE None
    ELSE Some(i)

\* Combinations::next without its for loop: the indices to the right of the
\* incremented one stay where they are.
lib_reset_skipped(indices, k, j) == indices

\* The for loop of Combinations::next: indices[j] = indices[j - 1] + 1 from j on.
RECURSIVE lib_reset(_, _, _)
lib_reset(indices, k, j) ==
    IF j >= k THEN indices
    ELSE lib_reset([indices EXCEPT ![j] = indices[j - 1] + 1], k, j + 1)

\* Combinations::next polling the source whether or not it answered None before.
lib_Combinations_next_ignores_done(c, k, s, l, pos) ==
    LET emit(c2, pos2, polls) ==
            LET res == make_array_items(c2.indices, k, c2.buffer)
            IN  [res |-> res, idx |-> Some(c2.indices), combs |-> c2, pos |-> pos2,
                 polls |-> polls]
        none(c2, pos2, polls) ==
            [res |-> None, idx |-> None, combs |-> c2, pos |-> pos2, polls |-> polls]
    IN  IF c.first
        THEN IF k > Len(c.buffer)
             THEN none(c, pos, <<>>)
             ELSE emit([c EXCEPT !.first = FALSE], pos, <<>>)
        ELSE IF k = 0
        THEN none(c, pos, <<>>)
        ELSE LET poll == c.indices[k - 1] = Len(c.buffer) - 1
                 x == ResumeIter_next(s, l, pos)
                 c1 == IF ~poll THEN c
                       ELSE IF x # None
                       THEN [c EXCEPT !.buffer = Append(c.buffer, x[1])]
                       ELSE [c EXCEPT !.done = TRUE]
                 pos1 == IF poll /\ x # None THEN pos + 1 ELSE pos
                 polls == IF poll THEN <<x>> ELSE <<>>
                 i == lib_scan(c1.indices, k, Len(c1.buffer), k - 1)
             IN  IF i = None
                 THEN none(c1, pos1, polls)
                 ELSE emit([c1 EXCEPT !.indices =
                               lib_reset([c1.indices EXCEPT ![i[1]] = c1.indices[i[1]] + 1],
                                         k, i[1] + 1)],
                           pos1, polls)

\* Combinations::next of lib.rs over the source (s, l) at position pos: the
\* result, the positions it was read from, the adapter and the source position
\* after the call, and the answers the source gave during the call.
lib_Combinations_next(c, k, s, l, pos) ==
    LET emit(c2, pos2, polls) ==
            LET res == make_array_items(c2.indices, k, c2.buffer)
            IN  [res |-> res, idx |-> Some(c2.indices), combs |-> c2, pos |-> pos2,
                 polls |-> polls]
        none(c2, pos2, polls) ==
            [res |-> None, idx |-> None, combs |-> c2, pos |-> pos2, polls |-> polls]
    IN  IF c.first
        THEN IF k > Len(c.buffer)
             THEN none(c, pos, <<>>)
             ELSE emit([c EXCEPT !.first = FALSE], pos, <<>>)
        ELSE IF k = 0
        THEN none(c, pos, <<>>)
        ELSE LET poll == ~c.done /\ c.indices[k - 1] = Len(c.buffer) - 1
                 x == ResumeIter_next(s, l, pos)
                 c1 == IF ~poll THEN c
                       ELSE IF x # None
                       THEN [c EXCEPT !.buffer = Append(c.buffer, x[1])]
                       ELSE [c EXCEPT !.done = TRUE]
                 pos1 == IF poll /\ x # None THEN pos + 1 ELSE pos
                 polls == IF poll THEN <<x>> ELSE <<>>
                 i == lib_scan(c1.indices, k, Len(c1.buffer), k - 1)
             IN  IF i = None
                 THEN none(c1, pos1, polls)
                 ELSE emit([c1 EXCEPT !.indices =
                               lib_reset([c1.indices EXCEPT ![i[1]] = c1.indices[i[1]] + 1],
                                         k, i[1] + 1)],
                           pos1, polls)

\* Combinations::size_hint of lib.rs (its K is the width N of the adapter).
lib_Combinations_size_hint(c, k, l, pos) ==
    LET n == Len(c.buffer)
    IN  IF k = 0 THEN <<1, Some(1)>>
        ELSE IF n < k THEN <<0, Some(0)>>
        ELSE LET iter_hint == iter_size_hint(l, pos)
                 lo == n + iter_hint[1]
                 hi == IF c.done THEN Some(n)
                       ELSE IF iter_hint[2] = None THEN None
                       ELSE Some(iter_hint[2][1] + n)
                 lower == combination_count(lo, k)
                 upper == IF hi = None THEN None
                          ELSE IF hi[1] = lo THEN lower
                          ELSE combination_count(hi[1], k)
             IN  <<IF lower = None THEN 0 ELSE lower[1], upper>>

\* FullPermutations::new(a)
FullPermutations_new(a, n) ==
    [a |-> a, c |-> Array([i \in 0..(n - 1) |-> 0]), i |-> 0, first |-> TRUE]

\* The while loop of FullPermutations::next: the generator after it and the
\* result.
RECURSIVE FullPermutations_loop(_, _)
FullPermutations_loop(fp, n) ==
    IF fp.i < n
    THEN IF fp.c[fp.i] < fp.i
         THEN LET swap_i == IF fp.i % 2 = 0 THEN 0 ELSE fp.c[fp.i]
                  a2 == swap(fp.a, swap_i, fp.i)
              IN  [fp  |-> [fp EXCEPT !.a = a2, !.c[fp.i] = fp.c[fp.i] + 1, !.i = 0],
                   res |-> Some(a2)]
         ELSE FullPermutations_loop([fp EXCEPT !.c[fp.i] = 0, !.i = fp.i + 1], n)
    ELSE [fp |-> fp, res |-> None]

\* FullPermutations::next
FullPermutations_next(fp, n) ==
    IF fp.first
    THEN [fp |-> [fp EXCEPT !.first = FALSE], res |-> Some(fp.a)]
    ELSE FullPermutations_loop(fp, n)

\* The for loop of FullPermutations::size_hint from position i on: mult and
\* returned_count after it.
RECURSIVE fp_hint_loop(_, _, _, _, _)
fp_hint_loop(c, n, i, mult, returned_count) ==
    IF i >= n THEN [mult |-> mult, returned_count |-> returned_count]
    ELSE LET m == IF mult = None THEN None ELSE checked_mul(mult[1], i)
             rc == IF returned_count = None \/ m = None THEN None
                   ELSE Some(returned_count[1] + m[1] * c[i])
         IN  fp_hint_loop(c, n, i + 1, m, rc)

\* FullPermutations::size_hint: Some(hint), or None when the call panics.
FullPermutations_size_hint(fp, n, overflow_checks) ==
    IF fp.i > 0
    THEN Some(<<0, Some(0)>>)
    ELSE LET l == fp_hint_loop(fp.c, n, 1, Some(1), Some(IF fp.first THEN 0 ELSE 1))
             mult == IF l.mult = None THEN None ELSE checked_mul(l.mult[1], n)
         IN  IF mult # None /\ l.returned_count # None
             THEN LET remaining == usize_sub(mult[1], l.returned_count[1], overflow_checks)
                  IN  IF remaining = None THEN None
                      ELSE Some(<<remaining[1], Some(remaining[1])>>)
             ELSE Some(<<0, None>>)

\* Permutations::new of lib.rs: the combinations adapter, asked for its first
\* combination, and the permutations of that one.
lib_Permutations_new(k, s, l) ==
    LET c0 == lib_Combinations_new(k, s, l)
        r == lib_Combinations_next(c0, k, s, l, Len(c0.buffer))
    IN  [combs |-> r.combs,
         pos |-> r.pos,
         perm_iter |-> IF r.res = None \/ r.res = Panic THEN None
                       ELSE Some(FullPermutations_new(r.res[1], k))]

\* Permutations::next of lib.rs
lib_Permutations_next(c, perm_iter, k, s, l, pos) ==
    IF perm_iter # None
    THEN LET p == FullPermutations_next(perm_iter[1], k)
         IN  IF p.res # None
             THEN [res |-> p.res, combs |-> c, perm_iter |-> Some(p.fp), pos |-> pos,
                   polls |-> <<>>]
             ELSE LET r == lib_Combinations_next(c, k, s, l, pos)
                  IN  IF r.res = Panic
                      THEN [res |-> Panic, combs |-> c, perm_iter |-> perm_iter,
                            pos |-> pos, polls |-> r.polls]
                      ELSE IF r.res = None
                      THEN [res |-> None, combs |-> r.combs, perm_iter |-> None,
                            pos |-> r.pos, polls |-> r.polls]
                      ELSE LET q == FullPermutations_next(
                                        FullPermutations_new(r.res[1], k), k)
                           IN  [res |-> q.res, combs |-> r.combs,
                                perm_iter |-> Some(q.fp), pos |-> r.pos,
                                polls |-> r.polls]
    ELSE [res |-> None, combs |-> c, perm_iter |-> perm_iter, pos |-> pos,
          polls |-> <<>>]

\* Permutations::size_hint of lib.rs: Some(hint), or None when the call panics.
lib_Permutations_size_hint(c, perm_iter, k, l, pos, overflow_checks) ==
    LET iter_hint == lib_Combinations_size_hint(c, k, l, pos)
        full_perm_count == permutation_count(k, k)
        lower == IF full_perm_count = None THEN None
                 ELSE Some(iter_hint[1] * full_perm_count[1])
        upper == IF full_perm_count = None \/ iter_hint[2] = None THEN None
                 ELSE Some(iter_hint[2][1] * full_perm_count[1])
        perm_hint == IF perm_iter = None THEN Some(<<0, Some(0)>>)
                     ELSE FullPermutations_size_hint(perm_iter[1], k, overflow_checks)
    IN  IF perm_hint = None THEN None
        ELSE Some(<<(IF lower = None THEN 0 ELSE lower[1]) + perm_hint[1][1],
                    IF upper = None THEN None
                    ELSE Some(upper[1] + perm_hint[1][2][1])>>)

-----------------------------------------------------------------------------
SeqModes == {"Combinations", "Permutations"}

SliceModes == {"SliceCombinations", "SlicePermutations"}

\* The domains: 1..n for every n, and the duplicate-valued [2, 2].
Domains == {[p \in 1..n |-> p] : n \in 0..MaxN} \cup {<<2, 2>>}

LibModes == {"LibCombinations", "LibPermutations"}

\* The state after construction: of one of the lazy adapters (nothing polled
\* yet), of a LazyCombinationGenerator or a LazyPermutationGenerator on its
\* own, of a FullPermutations over the array
\* 0..K-1, or of a Combinations or Permutations of lib.rs over a source that
\* delivers all its items (the prefill is part of new).
Init ==
    /\ \/ /\ mode \in SeqModes
          /\ K \in 0..MaxK
          /\ src \in Domains
          /\ items = <<>>
          /\ len = 0
          /\ iter_i = 0
          /\ combs = None
          /\ full_perm = None
       \/ /\ mode \in SliceModes
          /\ K \in 0..MaxK
          /\ src \in Domains
          /\ items = src
          /\ len = 0
          /\ iter_i = 0
          /\ combs = None
          /\ full_perm = None
       \/ /\ mode \in {"LazyCombinationGenerator", "LazyPermutationGenerator"}
          /\ K \in 0..MaxK
          /\ src = <<>>
          /\ items = <<>>
          /\ len = 0
          /\ iter_i = 0
          /\ combs = None
          /\ full_perm = None
       \/ /\ mode = "combination_count"
          /\ K = 0
          /\ src = <<>>
          /\ items = <<>>
          /\ len = 0
          /\ iter_i = 0
          /\ combs = None
          /\ full_perm = None
       \/ /\ mode = "FullPermutations"
          /\ K \in 0..MaxK
          /\ src = <<>>
          /\ items = <<>>
          /\ len = 0
          /\ iter_i = 0
          /\ combs = None
          /\ full_perm = Some(FullPermutations_new(make_array_identity(K), K))
       \/ /\ mode = "LibCombinations"
          /\ K \in 0..MaxK
          /\ src \in Domains
          /\ items = <<>>
          /\ len \in 0..Len(src)
          /\ combs = lib_Combinations_new(K, src, len)
          /\ iter_i = Len(combs.buffer)
          /\ full_perm = None
       \/ /\ mode = "LibPermutations"
          /\ K \in 0..MaxK
          /\ src \in Domains
          /\ items = <<>>
          /\ len \in 0..Len(src)
          /\ LET p == lib_Permutations_new(K, src, len)
             IN  /\ combs = p.combs
                 /\ iter_i = p.pos
                 /\ full_perm = p.perm_iter
    /\ comb_gen = LazyCombinationGenerator_new(K)
    /\ perm_gen = LazyPermutationGenerator_new(K)
    /\ out = <<>>
    /\ last = "init"
    /\ pull_len = 0
    /\ interrupted = (mode \in LibModes /\ K > len /\ len < Len(src))
    /\ nones = 0
    /\ hint = None
    /\ IF mode = "combination_count"
       THEN \E n \in 0..MaxCount, k \in 0..(MaxCount + 1) :
                count = [n |-> n, k |-> k, res |-> None]
       ELSE count = None
    /\ polled = IF mode \in LibModes THEN take_polls(K, src, len, 0) ELSE <<>>

\* The test's len.fetch_add(1): the source has one more item to deliver.
Arrive ==
    /\ mode \in SeqModes \cup LibModes
    /\ last # "panic"
    /\ len < Len(src)
    /\ len' = len + 1
    /\ UNCHANGED <<count, polled, mode, K, src, iter_i, items, comb_gen, perm_gen, out, last,
                   pull_len, interrupted, nones, lib_vars>>

\* Combinations::next (combinations.rs)
CombinationsNext ==
    /\ mode = "Combinations"
    /\ last # "panic"
    /\ LET buf == fill(comb_gen, K, items, src, len, iter_i)
           r == comb_get_and_step(comb_gen, K, buf)
       IN  /\ items' = buf
           /\ iter_i' = iter_i + (Len(buf) - Len(items))
           /\ comb_gen' = r.comb_gen
           /\ interrupted' = (interrupted \/ fill_interrupted(comb_gen, K, buf))
           /\ Record(r)
    /\ pull_len' = len
    /\ polled' = fill_polls(comb_gen, K, items, src, len, iter_i)
    /\ UNCHANGED <<count, mode, K, src, len, perm_gen, lib_vars>>

\* Permutations::next (permutations.rs)
PermutationsNext ==
    /\ mode = "Permutations"
    /\ last # "panic"
    /\ LET buf == fill(comb_gen, K, items, src, len, iter_i)
           r == perm_get_and_step(comb_gen, perm_gen, K, buf)
       IN  /\ items' = buf
           /\ iter_i' = iter_i + (Len(buf) - Len(items))
           /\ comb_gen' = r.comb_gen
           /\ perm_gen' = r.perm_gen
           /\ interrupted' = (interrupted \/ fill_interrupted(comb_gen, K, buf))
           /\ Record(r)
    /\ pull_len' = len
    /\ polled' = fill_polls(comb_gen, K, items, src, len, iter_i)
    /\ UNCHANGED <<count, mode, K, src, len, lib_vars>>

\* SliceCombinations::next (slice_combinations.rs)
slice_comb_next(gen, k, buf) ==
    IF is_done(gen, k, Len(buf))
    THEN [res |-> None, idx |-> None, comb_gen |-> gen]
    ELSE LET indices == gen.indices
             res == make_array_items(indices, k, buf)
         IN  [res |-> res,
              idx |-> Some(indices),
              comb_gen |-> IF res = Panic THEN gen ELSE comb_step(gen, k)]

SliceCombinationsNext ==
    /\ mode = "SliceCombinations"
    /\ last # "panic"
    /\ LET r == slice_comb_next(comb_gen, K, items)
       IN  /\ comb_gen' = r.comb_gen
           /\ Record(r)
    /\ UNCHANGED <<count, polled, mode, K, src, len, iter_i, items, perm_gen, pull_len, interrupted,
                   lib_vars>>

\* SlicePermutations::next (slice_permutations.rs)
slice_perm_next(cgen, pgen, k, buf) ==
    IF is_done(cgen, k, Len(buf))
    THEN [res |-> None, idx |-> None, comb_gen |-> cgen, perm_gen |-> pgen]
    ELSE LET comb_indices == cgen.indices
             perm_indices == pgen.indices
             idx == [i \in 0..(k - 1) |-> comb_indices[perm_indices[i]]]
             res == make_array_items(idx, k, buf)
             stepped == perm_step(pgen, k)
         IN  IF res = Panic
             THEN [res |-> res, idx |-> Some(idx), comb_gen |-> cgen, perm_gen |-> pgen]
             ELSE [res |-> res,
                   idx |-> Some(idx),
                   comb_gen |-> IF stepped.done THEN comb_step(cgen, k) ELSE cgen,
                   perm_gen |-> IF stepped.done THEN LazyPermutationGenerator_new(k)
                                ELSE stepped]

SlicePermutationsNext ==
    /\ mode = "SlicePermutations"
    /\ last # "panic"
    /\ LET r == slice_perm_next(comb_gen, perm_gen, K, items)
       IN  /\ comb_gen' = r.comb_gen
           /\ perm_gen' = r.perm_gen
           /\ Record(r)
    /\ UNCHANGED <<count, polled, mode, K, src, len, iter_i, items, pull_len, interrupted, lib_vars>>

\* n!
RECURSIVE Factorial(_)
Factorial(n) == IF n <= 1 THEN 1 ELSE n * Factorial(n - 1)

\* A caller of LazyPermutationGenerator<K>: read indices(), then step()
\* (as the test gen_order does); out records each state read, and the
\* caller stops ExtraSteps steps after the K!-th.
PermGenStep ==
    /\ mode = "LazyPermutationGenerator"
    /\ Len(out) < Factorial(K) + ExtraSteps
    /\ out' = Append(out, [idx |-> perm_gen.indices, val |-> <<>>])
    /\ perm_gen' = perm_step(perm_gen, K)
    /\ UNCHANGED <<count, polled, mode, K, src, len, iter_i, items, comb_gen, last, pull_len,
                   interrupted, nones, lib_vars>>

\* A caller of LazyCombinationGenerator<K> on its own: read indices(), then
\* step(), MaxCombSteps times at most; out records each state read.
CombGenStep ==
    /\ mode = "LazyCombinationGenerator"
    /\ Len(out) < MaxCombSteps
    /\ out' = Append(out, [idx |-> comb_gen.indices, val |-> <<>>])
    /\ comb_gen' = comb_step(comb_gen, K)
    /\ UNCHANGED <<count, polled, mode, K, src, len, iter_i, items, perm_gen, last, pull_len,
                   interrupted, nones, lib_vars>>

\* size_hint() was called and returned h = Some(hint), or panicked (h = None).
Hinted(h) ==
    /\ hint' = Some(h)
    /\ last' = IF h = None THEN "panic" ELSE last

\* FullPermutations::next (lib.rs)
FullPermutationsNext ==
    /\ mode = "FullPermutations"
    /\ last # "panic"
    /\ LET r == FullPermutations_next(full_perm[1], K)
       IN  /\ full_perm' = Some(r.fp)
           /\ Record([res |-> r.res, idx |-> r.res])
    /\ hint' = None
    /\ UNCHANGED <<count, polled, mode, K, src, len, iter_i, items, comb_gen, perm_gen, pull_len,
                   interrupted, combs>>

\* FullPermutations::size_hint (lib.rs), in a build with or without overflow
\* checks.
FullPermutationsSizeHint ==
    /\ mode = "FullPermutations"
    /\ last # "panic"
    /\ \E overflow_checks \in BOOLEAN :
           Hinted(FullPermutations_size_hint(full_perm[1], K, overflow_checks))
    /\ UNCHANGED <<count, polled, mode, K, src, len, iter_i, items, comb_gen, perm_gen, out,
                   pull_len, interrupted, nones, combs, full_perm>>

\* Combinations::next (lib.rs)
LibCombinationsNext ==
    /\ mode = "LibCombinations"
    /\ last # "panic"
    /\ LET r == lib_Combinations_next(combs, K, src, len, iter_i)
       IN  /\ combs' = r.combs
           /\ iter_i' = r.pos
           /\ polled' = r.polls
           /\ interrupted' = (interrupted \/ (AnsweredNone(r.polls) /\ len < Len(src)))
           /\ Record(r)
    /\ hint' = None
    /\ UNCHANGED <<count, mode, K, src, len, items, comb_gen, perm_gen, pull_len, full_perm>>

\* The source is one that reports its exact remaining length, like the ranges
\* of the tests of lib.rs: everything it holds is deliverable and it never
\* answered None with items remaining.
ExactLength == len = Len(src) /\ ~interrupted

\* Combinations::size_hint (lib.rs)
LibCombinationsSizeHint ==
    /\ mode = "LibCombinations"
    /\ last # "panic"
    /\ ExactLength
    /\ Hinted(Some(lib_Combinations_size_hint(combs, K, len, iter_i)))
    /\ UNCHANGED <<count, polled, mode, K, src, len, iter_i, items, comb_gen, perm_gen, out,
                   pull_len, interrupted, nones, combs, full_perm>>

\* Permutations::next (lib.rs)
LibPermutationsNext ==
    /\ mode = "LibPermutations"
    /\ last # "panic"
    /\ LET r == lib_Permutations_next(combs, full_perm, K, src, len, iter_i)
       IN  /\ combs' = r.combs
           /\ full_perm' = r.perm_iter
           /\ iter_i' = r.pos
           /\ polled' = r.polls
           /\ interrupted' = (interrupted \/ (AnsweredNone(r.polls) /\ len < Len(src)))
           /\ Record([res |-> r.res, idx |-> r.res])
    /\ hint' = None
    /\ UNCHANGED <<count, mode, K, src, len, items, comb_gen, perm_gen, pull_len>>

\* Permutations::size_hint (lib.rs), in a build with or without overflow checks.
LibPermutationsSizeHint ==
    /\ mode = "LibPermutations"
    /\ last # "panic"
    /\ ExactLength
    /\ \E overflow_checks \in BOOLEAN :
           Hinted(lib_Permutations_size_hint(combs, full_perm, K, len, iter_i,
                                             overflow_checks))
    /\ UNCHANGED <<count, polled, mode, K, src, len, iter_i, items, comb_gen, perm_gen, out,
                   pull_len, interrupted, nones, combs, full_perm>>

\* A caller of combination_count(n, k), as test_combination_count is.
CombinationCount ==
    /\ mode = "combination_count"
    /\ count.res = None
    /\ count' = [count EXCEPT !.res = Some(combination_count(count.n, count.k))]
    /\ UNCHANGED <<mode, K, src, len, iter_i, items, comb_gen, perm_gen, out, last,
                   pull_len, interrupted, nones, lib_vars, polled>>

Next ==
    \/ Arrive
    \/ CombinationsNext
    \/ PermutationsNext
    \/ SliceCombinationsNext
    \/ SlicePermutationsNext
    \/ PermGenStep
    \/ CombGenStep
    \/ FullPermutationsNext
    \/ FullPermutationsSizeHint
    \/ LibCombinationsNext
    \/ LibCombinationsSizeHint
    \/ LibPermutationsNext
    \/ LibPermutationsSizeHint
    \/ CombinationCount

Spec == Init /\ [][Next]_vars

-----------------------------------------------------------------------------
\* A generator after g calls of step().  The calls are split in halves and the
\* first half is evaluated (the test on done) before the second starts, so that
\* the evaluation nests only logarithmically deep.

RECURSIVE comb_steps_from(_, _, _)
comb_steps_from(gen, k, g) ==
    IF g = 0 THEN gen
    ELSE IF g = 1 THEN comb_step(gen, k)
    ELSE LET half == comb_steps_from(gen, k, g \div 2)
         IN  IF half.done \in BOOLEAN
             THEN comb_steps_from(half, k, g - (g \div 2))
             ELSE half

RECURSIVE perm_steps_from(_, _, _)
perm_steps_from(gen, n, p) ==
    IF p = 0 THEN gen
    ELSE IF p = 1 THEN perm_step(gen, n)
    ELSE LET half == perm_steps_from(gen, n, p \div 2)
         IN  IF half.done \in BOOLEAN
             THEN perm_steps_from(half, n, p - (p \div 2))
             ELSE half

\* new() followed by g calls of step().
comb_steps(k, g) == comb_steps_from(LazyCombinationGenerator_new(k), k, g)

perm_steps(n, p) == perm_steps_from(LazyPermutationGenerator_new(n), n, p)

-----------------------------------------------------------------------------
\* One call of next() of the sequence-backed adapter m ("Combinations" or
\* "Permutations") of width k over a source that delivers the items s without
\* interruption, from adapter state st: the state after it, with the result.
seq_pull(m, k, s, st) ==
    LET buf == fill(st.comb_gen, k, st.items, s, Len(s), st.iter_i)
        c == comb_get_and_step(st.comb_gen, k, buf)
        r == IF m = "Combinations"
             THEN [res |-> c.res, idx |-> c.idx, comb_gen |-> c.comb_gen,
                   perm_gen |-> st.perm_gen]
             ELSE perm_get_and_step(st.comb_gen, st.perm_gen, k, buf)
    IN  [items    |-> buf,
         iter_i   |-> st.iter_i + (Len(buf) - Len(st.items)),
         comb_gen |-> r.comb_gen,
         perm_gen |-> r.perm_gen,
         res      |-> r.res,
         idx      |-> r.idx]

\* Combinations::new / Permutations::new: nothing buffered, fresh generators.
seq_new(k) ==
    [items    |-> <<>>,
     iter_i   |-> 0,
     comb_gen |-> LazyCombinationGenerator_new(k),
     perm_gen |-> LazyPermutationGenerator_new(k),
     res      |-> None,
     idx      |-> None]

\* n calls of next() in a row (split in halves as comb_steps_from is).
RECURSIVE seq_pulls_from(_, _, _, _, _)
seq_pulls_from(m, k, s, st, n) ==
    IF n = 0 THEN st
    ELSE IF n = 1 THEN seq_pull(m, k, s, st)
    ELSE LET half == seq_pulls_from(m, k, s, st, n \div 2)
         IN  IF half.iter_i \in Nat
             THEN seq_pulls_from(m, k, s, half, n - (n \div 2))
             ELSE half

seq_pulls(m, k, s, n) == seq_pulls_from(m, k, s, seq_new(k), n)

-----------------------------------------------------------------------------
\* Mathematics the properties are stated in (none of it taken from the code).

\* The set of positions a tuple holds.
TupleSet(t) == {t[i] : i \in DOMAIN t}

Ascending(t) == \A i \in DOMAIN t : \A j \in DOMAIN t : i < j => t[i] < t[j]

Injective(t) == \A i \in DOMAIN t : \A j \in DOMAIN t : i # j => t[i] # t[j]

\* The k-subsets of 0..n-1.
KSubsets(n, k) == {S \in SUBSET (0..(n - 1)) : Cardinality(S) = k}

\* C(n, k), by Pascal's rule.
RECURSIVE Binomial(_, _)
Binomial(n, k) ==
    IF k = 0 THEN 1
    ELSE IF n = 0 THEN 0
    ELSE Binomial(n - 1, k - 1) + Binomial(n - 1, k)

SetMax(S) == CHOOSE x \in S : \A y \in S : y <= x

SetMin(S) == CHOOSE x \in S : \A y \in S : x <= y

SymDiff(A, B) == (A \ B) \cup (B \ A)

\* A before B when the sets are compared from their largest element downwards
\* (the order of the combinatorial number system).
ColexLess(A, B) == A # B /\ SetMax(SymDiff(A, B)) \in B

\* A before B when their ascending tuples are compared left to right.
LexLess(A, B) == A # B /\ SetMin(SymDiff(A, B)) \in A

\* B is the k-subset right after A in the order of the combinatorial number system.
ColexSuccessor(A, B) ==
    /\ ColexLess(A, B)
    /\ \A X \in KSubsets(SetMax(B) + 1, Cardinality(B)) :
           ~(ColexLess(A, X) /\ ColexLess(X, B))

\* A [T; K] as the sequence it prints as.
AsSeq(t) == [i \in 1..Cardinality(DOMAIN t) |-> t[i - 1]]

OutVals == [j \in 1..Len(out) |-> AsSeq(out[j].val)]

IsPrefix(a, b) == Len(a) <= Len(b) /\ a = SubSeq(b, 1, Len(a))

CombModes == {"Combinations", "SliceCombinations"}

PermModes == {"Permutations", "SlicePermutations"}

\* A combination adapter over K <= N items, delivered without interruption,
\* has returned its first None.
CombDrained ==
    /\ mode \in CombModes
    /\ K <= Len(src)
    /\ last = "none"
    /\ ~interrupted

-----------------------------------------------------------------------------
\* C1: over a fixed domain of N items, or a source delivering N items without
\* interruption, and K <= N, the combination adapter has emitted, at its first
\* None, exactly C(N,K) tuples, whose index tuples are strictly ascending,
\* pairwise distinct, and are all the K-subsets of 0..N-1.
C1_AllCombinations ==
    CombDrained =>
        /\ Len(out) = Binomial(Len(src), K)
        /\ \A j \in 1..Len(out) : Ascending(out[j].idx)
        /\ \A i \in 1..Len(out) : \A j \in 1..Len(out) :
               i # j => out[i].idx # out[j].idx
        /\ {TupleSet(out[j].idx) : j \in 1..Len(out)} = KSubsets(Len(src), K)

C1_Witness ==
    /\ CombDrained
    /\ mode = "Combinations"
    /\ Len(src) = 5
    /\ K = 3
    /\ Len(out) = 10

\* The spec's literal case: the combinations of [1,2,3,4,5] for K = 3, in order.
C2_Literal ==
    << <<1, 2, 3>>, <<1, 2, 4>>, <<1, 3, 4>>, <<2, 3, 4>>, <<1, 2, 5>>,
       <<1, 3, 5>>, <<2, 3, 5>>, <<1, 4, 5>>, <<2, 4, 5>>, <<3, 4, 5>> >>

\* C2: the combination adapter emits index tuples in the order of the
\* combinatorial number system: the first is 0..K-1, each next one is the
\* immediate successor of the one before when K-subsets are compared from the
\* largest index downwards, so every K-subset of the first m items comes before
\* any tuple holding item m+1; over [1,2,3,4,5] with K = 3 the output is the
\* literal list, then None.
C2_ColexOrder ==
    mode \in CombModes =>
        /\ Len(out) >= 1 => TupleSet(out[1].idx) = 0..(K - 1)
        /\ \A j \in 1..(Len(out) - 1) :
               ColexSuccessor(TupleSet(out[j].idx), TupleSet(out[j + 1].idx))
        /\ K > 0 =>
               \A j \in 1..Len(out) :
                   KSubsets(SetMax(TupleSet(out[j].idx)), K)
                       \subseteq {TupleSet(out[i].idx) : i \in 1..(j - 1)}
        /\ (src = <<1, 2, 3, 4, 5>> /\ K = 3) =>
               /\ IsPrefix(OutVals, C2_Literal)
               /\ CombDrained => OutVals = C2_Literal

C2_Witness ==
    /\ CombDrained
    /\ mode = "SliceCombinations"
    /\ src = <<1, 2, 3, 4, 5>>
    /\ K = 3
    /\ OutVals = C2_Literal

\* The set of positions the j-th emitted tuple was read from.
OutSet(j) == TupleSet(out[j].idx)

\* The history out only grows, by one tuple per pull, and every reachable state
\* is checked: a property of the latest tuple against all earlier ones is a
\* property of every pair of tuples.

\* C3 as stated: the composite permutation generator visits the combinations
\* in lexicographic order of their index tuples (compared left to right): every
\* permutation of a K-subset is emitted before any permutation of a
\* lexicographically later K-subset.
C3_LexOrder ==
    mode \in PermModes =>
        \A i \in 1..(Len(out) - 1) :
            OutSet(i) # OutSet(Len(out)) => LexLess(OutSet(i), OutSet(Len(out)))

\* C3 amended: the composite permutation generator visits the combinations in
\* the order of the combinatorial number system (index sets compared from the
\* largest index downwards): the first group is 0..K-1, a tuple is followed by
\* a tuple of the same K-subset or of its immediate colex successor, and every
\* permutation of a K-subset is emitted before any permutation of a K-subset
\* that is later in that order.
C3_ColexGroups ==
    mode \in PermModes =>
        /\ Len(out) >= 1 => OutSet(1) = 0..(K - 1)
        /\ \A j \in 1..(Len(out) - 1) :
               \/ OutSet(j) = OutSet(j + 1)
               \/ ColexSuccessor(OutSet(j), OutSet(j + 1))
        /\ \A i \in 1..(Len(out) - 1) :
               OutSet(i) # OutSet(Len(out)) => ColexLess(OutSet(i), OutSet(Len(out)))

\* All twelve tuples of a four-item slice for K = 2: the groups {1,2} and {0,3}
\* are where the two orders part.
C3_Witness ==
    /\ mode = "SlicePermutations"
    /\ Len(src) = 4
    /\ K = 2
    /\ last = "none"
    /\ Len(out) = 12
    /\ OutSet(5) = {1, 2}
    /\ OutSet(7) = {0, 3}

\* The permutations of 0..n-1, as arrays.
Perms(n) == {f \in [0..(n - 1) -> 0..(n - 1)] : Injective(f)}

\* The states of the generator read before each of the first n steps.
ReadBefore(n) == {out[j].idx : j \in 1..n}

\* C4: a fresh LazyPermutationGenerator<N> holds the identity and is not done;
\* the states read before each of the first N! steps are N! pairwise distinct
\* permutations of 0..N-1, hence every permutation exactly once; is_done() is
\* false after fewer than N! steps and true from the N!-th step on.  (Len(out)
\* is the number of step() calls made.)
C4_HeapEnumerates ==
    mode = "LazyPermutationGenerator" =>
        /\ Len(out) = 0 =>
               perm_gen.indices = [i \in 0..(K - 1) |-> i] /\ ~perm_gen.done
        /\ Len(out) >= 1 => out[1].idx = [i \in 0..(K - 1) |-> i]
        /\ \A j \in 1..Len(out) : j <= Factorial(K) => out[j].idx \in Perms(K)
        /\ Len(out) <= Factorial(K) =>
               \A i \in 1..(Len(out) - 1) : out[i].idx # out[Len(out)].idx
        /\ Len(out) >= Factorial(K) => ReadBefore(Factorial(K)) = Perms(K)
        /\ perm_gen.done <=> Len(out) >= Factorial(K)

C4_Witness ==
    /\ mode = "LazyPermutationGenerator"
    /\ K = 4
    /\ Len(out) = 24
    /\ perm_gen.done
    /\ Cardinality(ReadBefore(24)) = 24

\* A composite permutation adapter over K <= N items, delivered without
\* interruption, has returned its first None.
PermDrained ==
    /\ mode \in PermModes
    /\ K <= Len(src)
    /\ last = "none"
    /\ ~interrupted

\* The places in out of the g-th run of K! tuples (g from 0).
Group(g) == (g * Factorial(K) + 1)..((g + 1) * Factorial(K))

GroupSet(g) == OutSet(g * Factorial(K) + 1)

\* C5: over N items and K <= N the composite permutation generator has emitted,
\* at its first None, exactly C(N,K) * K! tuples: C(N,K) consecutive groups of
\* K! tuples, each group being all K! orderings of one K-subset of positions,
\* and no K-subset owning two groups.
C5_GroupsOfOrderings ==
    PermDrained =>
        /\ Len(out) = Binomial(Len(src), K) * Factorial(K)
        /\ \A g \in 0..(Binomial(Len(src), K) - 1) :
               /\ GroupSet(g) \in KSubsets(Len(src), K)
               /\ \A j \in Group(g) :
                      Injective(out[j].idx) /\ OutSet(j) = GroupSet(g)
               /\ Cardinality({out[j].idx : j \in Group(g)}) = Factorial(K)
        /\ \A g \in 0..(Binomial(Len(src), K) - 1) :
               \A h \in 0..(Binomial(Len(src), K) - 1) :
                   g # h => GroupSet(g) # GroupSet(h)

C5_Witness ==
    /\ PermDrained
    /\ mode = "Permutations"
    /\ Len(src) = 5
    /\ K = 3
    /\ Len(out) = 60
    /\ GroupSet(9) = {2, 3, 4}

\* The positions of the j-th tuple (j from 1) as a function of j alone: for
\* Combinations the indices after j-1 steps of a new combination generator; for
\* Permutations, with g = (j-1) div K! and p = (j-1) mod K!, the indices after g
\* steps of a new combination generator read through the indices after p steps
\* of a new permutation generator.  It does not depend on when items arrive:
\* a history that follows it in every interleaving is the history of the
\* uninterrupted run.
RefIdx(j) ==
    IF mode = "Combinations"
    THEN comb_steps(K, j - 1).indices
    ELSE LET c == comb_steps(K, (j - 1) \div Factorial(K)).indices
             p == perm_steps(K, (j - 1) % Factorial(K)).indices
         IN  [i \in 0..(K - 1) |-> c[p[i]]]

RefVal(j) == [i \in 0..(K - 1) |-> src[RefIdx(j)[i] + 1]]

\* How many items the source must have delivered for the j-th tuple to exist.
Needs(j) == IF K = 0 THEN 0 ELSE SetMax(TupleSet(RefIdx(j))) + 1

\* C6: over a source that may answer None any number of times before each
\* item, in every interleaving of pulls and arrivals, the j-th tuple emitted by
\* Combinations and Permutations is the j-th tuple of the uninterrupted run
\* (none skipped, repeated or reordered by a None in between), and a pull
\* returns None only when the items the source could deliver by that pull do
\* not hold the next tuple (or, for K = 0, the one empty tuple is out).
C6_Resumable ==
    mode \in SeqModes =>
        /\ Len(out) >= 1 =>
               /\ out[Len(out)].idx = RefIdx(Len(out))
               /\ out[Len(out)].val = RefVal(Len(out))
        /\ last = "none" =>
               IF K = 0 THEN Len(out) = 1 ELSE Needs(Len(out) + 1) > pull_len
        /\ last \in {"init", "some", "none"}

\* A run that was interrupted, saw None between tuples, and emitted everything.
C6_Witness ==
    /\ mode = "Permutations"
    /\ interrupted
    /\ Len(src) = 4
    /\ K = 3
    /\ last = "none"
    /\ pull_len = 4
    /\ Len(out) = 24

\* The resume_after_none case: items 1,2,3,4 arriving one at a time, K = 3.
C7_Case == mode = "Combinations" /\ src = <<1, 2, 3, 4>> /\ K = 3

\* C7 as stated: every pull made before 3 items are available returns None;
\* the pull once the 3rd item has arrived returns [1,2,3]; the pull once the 4th
\* has arrived returns [1,2,4]; further pulls return exhaustion, so nothing is
\* emitted after [1,2,4]; however the None answers are interspersed.
C7_AsStated ==
    C7_Case =>
        /\ pull_len < 3 => out = <<>>
        /\ pull_len >= 3 => (Len(out) >= 1 /\ OutVals[1] = <<1, 2, 3>>)
        /\ Len(out) >= 2 => (pull_len = 4 /\ OutVals[2] = <<1, 2, 4>>)
        /\ (pull_len = 4 /\ last = "none") => Len(out) >= 2
        /\ Len(out) <= 2

C7_Literal == << <<1, 2, 3>>, <<1, 2, 4>>, <<1, 3, 4>>, <<2, 3, 4>> >>

\* C7 amended: every pull made before 3 items are available returns None; the
\* pull once the 3rd item has arrived returns [1,2,3] and pulls return None
\* until the 4th arrives; the pulls once the 4th has arrived return [1,2,4],
\* then [1,3,4], then [2,3,4], and only then exhaustion; however the None
\* answers are interspersed.
C7_ResumeAfterNone ==
    C7_Case =>
        /\ pull_len < 3 => out = <<>>
        /\ pull_len = 3 => OutVals = << <<1, 2, 3>> >>
        /\ pull_len = 4 => Len(out) >= 1
        /\ IsPrefix(OutVals, C7_Literal)
        /\ (pull_len = 4 /\ last = "none") => OutVals = C7_Literal
        /\ last \in {"init", "some", "none"}

\* The test's run: None with 0, 1 and 2 items, a tuple and None with 3 items,
\* three tuples and None with 4.
C7_Witness ==
    /\ C7_Case
    /\ interrupted
    /\ pull_len = 4
    /\ last = "none"
    /\ OutVals = C7_Literal

Adapters == SeqModes \cup SliceModes

\* C8: with K = 0 each of the four adapters returns one empty tuple on the
\* first pull and None on every later pull, whatever the source or slice holds
\* (nothing included): before the first pull nothing is out; after any pull
\* exactly one tuple, the empty one, is out, and a pull that returned the tuple
\* is the first.
C8_WidthZero ==
    (mode \in Adapters /\ K = 0) =>
        /\ last = "init" => out = <<>>
        /\ last # "init" => OutVals = << <<>> >>
        /\ last \in {"init", "some", "none"}

C8_Witness ==
    /\ mode = "Permutations"
    /\ K = 0
    /\ src = <<>>
    /\ last = "none"
    /\ OutVals = << <<>> >>

\* C9: when K is greater than the number of items the source or the slice ever
\* provides, the four adapters emit nothing: the first pull and every later
\* pull return None, whenever the items arrive.
C9_WidthTooBig ==
    (mode \in Adapters /\ K > Len(src)) =>
        /\ out = <<>>
        /\ last \in {"init", "none"}

\* Both items of a two-item source are buffered, and the pull returned None.
C9_Witness ==
    /\ mode = "Permutations"
    /\ K = 3
    /\ Len(src) = 2
    /\ Len(items) = 2
    /\ last = "none"
    /\ out = <<>>

\* A pull of whichever adapter this behaviour drives.
Pull ==
    \/ CombinationsNext
    \/ PermutationsNext
    \/ SliceCombinationsNext
    \/ SlicePermutationsNext

\* C10: a pull that returns None leaves the index generators as they were: the
\* combination indices and done flag, and the permutation indices, counters
\* and done flag; nothing is emitted, and the buffer changes only by gaining,
\* at its end, the items the source delivered during that pull.
C10_NoneKeepsGenerators ==
    [][(Pull /\ last' = "none") =>
           /\ comb_gen' = comb_gen
           /\ perm_gen' = perm_gen
           /\ out' = out
           /\ iter_i' >= iter_i
           /\ items' = items \o SubSeq(src, iter_i + 1, iter_i')]_vars

\* Permutations after a pull that returned None between two groups, the first
\* group out, the third item not yet delivered.
C10_Witness ==
    /\ mode = "Permutations"
    /\ K = 2
    /\ Len(src) = 3
    /\ last = "none"
    /\ Len(items) = 2
    /\ Len(out) = 2
    /\ comb_gen.indices = (0 :> 0 @@ 1 :> 2)
    /\ perm_gen = LazyPermutationGenerator_new(2)

\* C11: exhaustion is permanent for fused inputs.  For the slice adapters, and
\* for Combinations and Permutations over a source that yields nothing once it
\* has answered None, a pull made after a pull that returned None returns None,
\* for every K and every length.  (With K > 0 a pull returns None only when the
\* source answered None in its fill, so from then on a fused source yields
\* nothing: the pulls of such a source are those that draw no item; with K = 0
\* the source is never asked.)
C11_FusedExhaustion ==
    [][(Pull /\ last = "none" /\ iter_i' = iter_i) => last' = "none"]_vars

\* Combinations over three items, all of them out, asked twice more.
C11_Witness ==
    /\ mode = "Combinations"
    /\ Len(src) = 3
    /\ K = 2
    /\ Len(out) = 3
    /\ iter_i = 3
    /\ last = "none"
    /\ nones = 2

\* The sequence-backed adapter that a slice adapter is compared with.
SeqTwin == IF mode = "SliceCombinations" THEN "Combinations" ELSE "Permutations"

\* How many pulls this behaviour has made (exact while nones < MaxNones; the
\* pulls beyond that find the state they leave).
Pulls == Len(out) + nones

\* C12: the slice adapters are equivalent to the sequence-backed ones: for
\* every list of items and every K, the latest pull of SliceCombinations
\* (SlicePermutations), the n-th, returned what the n-th pull of Combinations
\* (Permutations) returns over a source that delivers the same items without
\* interruption: None for None, and the same index tuple and values otherwise;
\* and both hold the same generator state after it, the buffer of the one being
\* the part of the slice it has needed so far.  (Every pull is the latest
\* pull of some reachable state, so this is the equality of the two sequences
\* of results, pull by pull.)
C12_SliceMatchesSeq ==
    (mode \in SliceModes /\ Pulls >= 1) =>
        LET r == seq_pull(SeqTwin, K, src, seq_pulls(SeqTwin, K, src, Pulls - 1))
        IN  /\ last \in {"some", "none"}
            /\ last = "none" <=> r.res = None
            /\ last = "some" =>
                   /\ r.res # Panic
                   /\ r.idx = Some(out[Len(out)].idx)
                   /\ r.res = Some(out[Len(out)].val)
            /\ r.comb_gen = comb_gen
            /\ r.perm_gen = perm_gen
            /\ IsPrefix(r.items, items)

\* SlicePermutations over four items, K = 3: all 24 tuples out, then None twice.
C12_Witness ==
    /\ mode = "SlicePermutations"
    /\ src = <<1, 2, 3, 4>>
    /\ K = 3
    /\ Len(out) = 24
    /\ nones = 2
    /\ seq_pulls("Permutations", 3, src, 24).res = Some(out[24].val)
    /\ seq_pulls("Permutations", 3, src, 26).res = None

\* The sequence-backed adapter of the kind this behaviour drives.
Kind == IF mode \in CombModes THEN "Combinations" ELSE "Permutations"

\* The domain 1, 2, ..., n of distinct values.
Distinct(n) == [p \in 1..n |-> p]

\* A domain as long as s with other values: all items equal where s holds
\* distinct values, distinct values where s holds equal ones.
OtherValues(s) ==
    IF s = Distinct(Len(s)) THEN [p \in 1..Len(s) |-> 2] ELSE Distinct(Len(s))

\* The adapter has had every item (the slice, or all of the source by the
\* latest pull) and returned None.
Finished ==
    /\ mode \in Adapters
    /\ last = "none"
    /\ mode \in SeqModes => pull_len = Len(src)

\* C13: items are treated by position only.  The j-th tuple an adapter emits
\* over its domain was read from the positions from which the j-th tuple is
\* read over a domain of the same length with other values (equal values
\* instead of distinct ones included), its values are the items at these
\* positions, and it emits as many tuples as are emitted over that domain; the
\* domain [2,2] with K = 2 yields one combination, positions (0,1), that reads
\* [2,2].
C13_Positional ==
    mode \in Adapters =>
        /\ Len(out) >= 1 =>
               LET t == out[Len(out)]
                   o == seq_pulls(Kind, K, OtherValues(src), Len(out))
               IN  /\ o.idx = Some(t.idx)
                   /\ t.val = [i \in 0..(K - 1) |-> src[t.idx[i] + 1]]
        /\ Finished =>
               seq_pulls(Kind, K, OtherValues(src), Len(out) + 1).res = None
        /\ (mode \in CombModes /\ src = <<2, 2>> /\ K = 2) =>
               /\ IsPrefix(OutVals, << <<2, 2>> >>)
               /\ Len(out) >= 1 => out[1].idx = (0 :> 0 @@ 1 :> 1)
               /\ Finished => Len(out) = 1

\* Combinations over [2,2] with K = 2, finished: the one tuple [2,2] is out.
C13_Witness ==
    /\ mode = "Combinations"
    /\ src = <<2, 2>>
    /\ K = 2
    /\ Finished
    /\ OutVals = << <<2, 2>> >>
    /\ out[1].idx = (0 :> 0 @@ 1 :> 1)

\* The elements of a set of positions in ascending order, as an array.
AscTuple(S) ==
    [i \in 0..(Cardinality(S) - 1) |->
        CHOOSE x \in S : Cardinality({y \in S : y < x}) = i]

C14_Literal ==
    << <<1, 2>>, <<2, 1>>, <<1, 3>>, <<3, 1>>, <<2, 3>>, <<3, 2>> >>

\* C14: within the group of a combination the composite generator emits the
\* tuples in the order of Heap's algorithm from the identity: the j-th tuple of
\* a group (j = 0..K!-1) has element i equal to items[comb[p_j[i]]], comb being
\* the group's ascending index tuple and p_j the indices of a new permutation
\* generator after j steps; the permutation generator is reset and the
\* combination generator stepped once per group, in the pull that emits the
\* group's K!-th tuple: after n tuples the combination generator has made
\* n div K! steps and the permutation generator n mod K! steps from new.  Over
\* [1,2,3] with K = 2 the output is [1,2],[2,1],[1,3],[3,1],[2,3],[3,2], then
\* None.
C14_HeapOrderInGroups ==
    mode \in PermModes =>
        /\ Len(out) >= 1 =>
               LET n == Len(out)
                   j == (n - 1) % Factorial(K)
                   comb == AscTuple(GroupSet((n - 1) \div Factorial(K)))
                   p == perm_steps(K, j).indices
               IN  /\ out[n].idx = [i \in 0..(K - 1) |-> comb[p[i]]]
                   /\ out[n].val = [i \in 0..(K - 1) |-> src[comb[p[i]] + 1]]
        /\ comb_gen = comb_steps(K, Len(out) \div Factorial(K))
        /\ perm_gen = perm_steps(K, Len(out) % Factorial(K))
        /\ (src = <<1, 2, 3>> /\ K = 2) =>
               /\ IsPrefix(OutVals, C14_Literal)
               /\ Finished => OutVals = C14_Literal

\* Permutations over four items with K = 3 inside its third group, {0,2,3}:
\* the fifth state of Heap's algorithm, [1,2,0], reads positions 2, 3, 0.
C14_Witness ==
    /\ mode = "Permutations"
    /\ Len(src) = 4
    /\ K = 3
    /\ Len(out) = 17
    /\ GroupSet(2) = {0, 2, 3}
    /\ out[17].idx = (0 :> 2 @@ 1 :> 3 @@ 2 :> 0)

\* How many permutations next() of FullPermutations will still return: N!
\* less those returned, and none once it has returned None.
FullPermsLeft == IF last = "none" THEN 0 ELSE Factorial(K) - Len(out)

\* C15: for FullPermutations over N elements, for every N, size_hint() returns
\* (r, Some(r)) with r the exact number of permutations next() will still
\* return: N! before the first pull, one less after each successful pull, and
\* (0, Some(0)) once next() has returned None.
C15_ExactSizeHint ==
    (mode = "FullPermutations" /\ hint # None) =>
        hint = Some(Some(<<FullPermsLeft, Some(FullPermsLeft)>>))

\* The same for N >= 1 only.
C15_ExactFromOne ==
    (mode = "FullPermutations" /\ K >= 1 /\ hint # None) =>
        hint = Some(Some(<<FullPermsLeft, Some(FullPermsLeft)>>))

\* N >= 1: size_hint() asked in the middle of the run, with some counters set.
C15_Asked ==
    /\ mode = "FullPermutations"
    /\ K = 4
    /\ Len(out) = 17
    /\ hint = Some(Some(<<7, Some(7)>>))

\* The number of K-permutations of n items: n!/(n-K)!, none when n < K.
KPermutations(n, k) == Binomial(n, k) * Factorial(k)

\* C16: a freshly constructed Permutations<_, K> of lib.rs over a source that
\* reports an exact length of n items returns size_hint() = (P, Some(P)) with
\* P = n!/(n-K)! the number of K-permutations: (60, Some(60)) for n = 5, K = 3.
C16_FreshPermutationsHint ==
    (mode = "LibPermutations" /\ last = "init" /\ hint # None) =>
        hint = Some(Some(<<KPermutations(Len(src), K),
                           Some(KPermutations(Len(src), K))>>))

\* What the code returns on the fresh adapter: K! too many when n >= K >= 1,
\* the permutations of the first combination being counted twice.
C16_CountsFirstGroupTwice ==
    (mode = "LibPermutations" /\ last = "init" /\ hint # None) =>
        LET p == KPermutations(Len(src), K)
            h == IF Len(src) >= K /\ K >= 1 THEN p + Factorial(K) ELSE p
        IN  hint = Some(Some(<<h, Some(h)>>))

\* The test's case: n = 5, K = 3, asked on the fresh adapter.
C16_Asked ==
    /\ mode = "LibPermutations"
    /\ Len(src) = 5
    /\ K = 3
    /\ last = "init"
    /\ hint = Some(Some(<<66, Some(66)>>))

\* C17: a freshly constructed Combinations<_, K> of lib.rs over a source that
\* reports an exact length of n items returns size_hint() =
\* (C(n,K), Some(C(n,K))): (10, Some(10)) for n = 5 and K = 2, (1, Some(1)) for
\* K = 0, and (0, Some(0)) when n < K.
C17_FreshCombinationsHint ==
    (mode = "LibCombinations" /\ last = "init" /\ hint # None) =>
        /\ hint = Some(Some(<<Binomial(Len(src), K), Some(Binomial(Len(src), K))>>))
        /\ K = 0 => hint = Some(Some(<<1, Some(1)>>))
        /\ Len(src) < K => hint = Some(Some(<<0, Some(0)>>))
        /\ (Len(src) = 5 /\ K = 2) => hint = Some(Some(<<10, Some(10)>>))

\* The test's case: n = 5, K = 2, asked on the fresh adapter.
C17_Witness ==
    /\ mode = "LibCombinations"
    /\ Len(src) = 5
    /\ K = 2
    /\ last = "init"
    /\ combs.first
    /\ Len(combs.buffer) = 2
    /\ hint = Some(Some(<<10, Some(10)>>))

\* The objects that hold a LazyCombinationGenerator.
WithCombGen == Adapters \cup {"LazyCombinationGenerator"}

\* C18: in every reachable state of LazyCombinationGenerator<K>, after new()
\* and any number of step() calls (made by a caller of the generator or by an
\* adapter), the indices are strictly ascending: indices[i] < indices[i+1] for
\* 0 <= i < K-1.
C18_StrictlyAscending ==
    mode \in WithCombGen =>
        \A i \in 0..(K - 2) : comb_gen.indices[i] < comb_gen.indices[i + 1]

\* The generator of width 3 after 20 steps: the K-subsets of 0..5 are behind it.
C18_Witness ==
    /\ mode = "LazyCombinationGenerator"
    /\ K = 3
    /\ Len(out) = 20
    /\ comb_gen.indices = (0 :> 0 @@ 1 :> 1 @@ 2 :> 6)

\* C19 as stated: in every reachable state of a combination adapter each index
\* held by the combination generator is strictly less than the current domain
\* size: the buffer length for Combinations, the slice length for
\* SliceCombinations.
C19_BelowDomainSize ==
    mode \in CombModes =>
        \A i \in 0..(K - 1) : comb_gen.indices[i] < Len(items)

\* C19 amended: in every reachable state of a combination adapter each index
\* held by the combination generator is at most the current domain size (at
\* most K-1 while the buffer is shorter than K), and it is strictly less than
\* the domain size in the states where the generator is not done for that
\* size, those in which next() builds a tuple.
C19_WithinDomain ==
    mode \in CombModes =>
        /\ \A i \in 0..(K - 1) :
               \/ comb_gen.indices[i] <= Len(items)
               \/ (Len(items) < K /\ comb_gen.indices[i] <= K - 1)
        /\ ~is_done(comb_gen, K, Len(items)) =>
               \A i \in 0..(K - 1) : comb_gen.indices[i] < Len(items)

\* SliceCombinations over three items after its last tuple: the largest index
\* is the slice length.
C19_Witness ==
    /\ mode = "SliceCombinations"
    /\ Len(src) = 3
    /\ K = 2
    /\ Len(out) = 3
    /\ comb_gen.indices = (0 :> 0 @@ 1 :> 3)

\* The larger of two numbers.
Max(a, b) == IF a >= b THEN a ELSE b

\* C20: index safety.  Whenever one of the four adapters builds a tuple, every
\* index it dereferences is smaller than the length of the buffer (or slice) at
\* that pull, so no pull reads out of bounds (none panics); and for K > 0 the
\* largest combination index never exceeds max(buffer length, K-1), after any
\* sequence of pulls and arrivals.
C20_IndexSafety ==
    mode \in Adapters =>
        /\ last # "panic"
        /\ last = "some" => InBounds(out[Len(out)].idx, K, items)
        /\ K > 0 => comb_gen.indices[K - 1] <= Max(Len(items), K - 1)

\* Permutations over four items has just built the first tuple that reads the
\* fourth item, which that pull buffered.
C20_Witness ==
    /\ mode = "Permutations"
    /\ Len(src) = 4
    /\ K = 3
    /\ last = "some"
    /\ Len(out) = 7
    /\ Len(items) = 4
    /\ out[7].idx = (0 :> 0 @@ 1 :> 1 @@ 2 :> 3)
    /\ comb_gen.indices[2] = 3

\* A pull of a sequence-backed adapter.
SeqPull == CombinationsNext \/ PermutationsNext

\* The items among the answers of the source.
Delivered(answers) ==
    LET some == SelectSeq(answers, LAMBDA x : x # None)
    IN  [p \in 1..Len(some) |-> some[p][1]]

\* C21: the sequence-backed adapters are lazy.  Every pull leaves the buffer it
\* found as a prefix of the new one, which adds the items the source delivered
\* in that pull and nothing else; for K > 0 the buffer is never longer than
\* max_index()+1, before and after the step of the pull; the source is polled
\* at most max_index()+1 - (buffer length) times in a pull, so not at all when
\* the buffer is that long already, and never again in the pull after it
\* answered None; for K = 0 it is never polled.
C21_Lazy ==
    [][SeqPull =>
           LET need == IF K > 0 THEN max_index(comb_gen, K)[1] + 1 ELSE 0
           IN  /\ IsPrefix(items, items')
               /\ items' = items \o Delivered(polled')
               /\ iter_i' = iter_i + Len(Delivered(polled'))
               /\ Len(polled') <= saturating_sub(need, Len(items))
               /\ \A p \in 1..(Len(polled') - 1) : polled'[p] # None
               /\ K > 0 => /\ Len(items') <= need
                           /\ Len(items') <= max_index(comb_gen', K)[1] + 1
               /\ K = 0 => polled' = <<>> /\ items' = <<>>]_vars

\* Combinations of width 3 asked when two items are deliverable: three polls,
\* answered 1, 2 and None.
C21_Witness ==
    /\ mode = "Combinations"
    /\ K = 3
    /\ Len(src) = 5
    /\ len = 2
    /\ polled = <<Some(1), Some(2), None>>
    /\ items = <<1, 2>>
    /\ last = "none"

\* The positions the next step() of generator p of width n would swap, as a
\* set (empty when it would swap nothing).
SwapPositions(p, n) ==
    LET s == perm_step_loop(p.counters, n, 1)
    IN  IF s.i < n
        THEN {s.i, IF s.i % 2 = 0 THEN 0 ELSE s.counters[s.i]}
        ELSE {}

\* C22: in every reachable state of LazyPermutationGenerator<N>, on its own or
\* inside an adapter, before and after it is done, indices is a bijection of
\* 0..N-1, counters[i] <= i for every i, and the swap the next step() performs
\* is between positions of 0..N-1.
C22_PermGenWellFormed ==
    /\ perm_gen.indices \in Perms(K)
    /\ DOMAIN perm_gen.counters = 0..(K - 1)
    /\ \A i \in 0..(K - 1) : perm_gen.counters[i] \in 0..i
    /\ SwapPositions(perm_gen, K) \subseteq 0..(K - 1)

\* A generator of width 3 that was stepped after it was done, and so swapped
\* again: its indices are no longer those of the state it was done in.
C22_Witness ==
    /\ mode = "LazyPermutationGenerator"
    /\ K = 3
    /\ perm_gen.done
    /\ Len(out) = Factorial(K) + 1
    /\ perm_gen.indices # out[Factorial(K) + 1].idx
    /\ perm_gen.counters[1] = 1

\* C23: a step() of a LazyPermutationGenerator that is done leaves it done, so
\* is_done() stays true after any number of further steps; and every step() of
\* a LazyCombinationGenerator<0>, the first one and every later one, leaves
\* is_done(n) true for every item count n.
C23_DoneIsSticky ==
    [][/\ (PermGenStep /\ perm_gen.done) => perm_gen'.done
       /\ (CombGenStep /\ K = 0) => \A n \in 0..(MaxN + 1) : is_done(comb_gen', K, n)]_vars

\* A permutation generator of width 3 stepped ExtraSteps times after the step
\* that made it done.
C23_Witness ==
    /\ mode = "LazyPermutationGenerator"
    /\ K = 3
    /\ Len(out) = Factorial(K) + ExtraSteps
    /\ perm_gen.done

\* A combination generator of width 0 stepped three times.
C23_WitnessWidthZero ==
    /\ mode = "LazyCombinationGenerator"
    /\ K = 0
    /\ Len(out) = 3
    /\ \A n \in 0..MaxN : is_done(comb_gen, K, n)

\* C24: lib.rs Combinations treats a buffer shorter than K as permanent
\* exhaustion.  When construction left fewer than K items in the buffer (the
\* source answered None during the prefill), every pull returns None without
\* polling and leaves the adapter as it was, whatever the source could deliver
\* by then, so nothing is ever emitted; and a pull of an adapter whose source
\* answered None (done is set) never polls it, done being set by every None
\* answer and never cleared.
C24_PermanentExhaustion ==
    [][(mode = "LibCombinations" /\ LibCombinationsNext) =>
           /\ Len(combs.buffer) < K =>
                  /\ combs.first /\ combs.done
                  /\ out = <<>>
                  /\ last' = "none"
                  /\ polled' = <<>>
                  /\ combs' = combs
                  /\ iter_i' = iter_i
           /\ combs.done =>
                  /\ polled' = <<>>
                  /\ iter_i' = iter_i
                  /\ combs'.buffer = combs.buffer
                  /\ combs'.done
           /\ AnsweredNone(polled') => combs'.done]_vars

\* Width 2 over a source that delivered one item during construction and could
\* deliver three by the time of the pulls, every one of which returned None.
C24_Witness ==
    /\ mode = "LibCombinations"
    /\ K = 2
    /\ Len(combs.buffer) = 1
    /\ len = 3
    /\ iter_i = 1
    /\ nones = MaxNones
    /\ last = "none"
    /\ out = <<>>

\* An iteration whose source answered None with items still to come: it went on
\* to return None although the source could deliver more.
C24_WitnessIteration ==
    /\ mode = "LibCombinations"
    /\ K = 2
    /\ ~combs.first
    /\ combs.done
    /\ Len(out) = 3
    /\ Len(combs.buffer) = 3
    /\ len = 5
    /\ last = "none"

\* lib.rs Combinations over a source of at least K items that never answered
\* None with items remaining.
EagerRun == mode = "LibCombinations" /\ ~interrupted /\ Len(src) >= K

\* Tuple b of width k is tuple a with its rightmost index that can still grow
\* below n incremented, and the indices to its right reset to consecutive values.
RightmostIncremented(a, b, k, n) ==
    \E i \in 0..(k - 1) :
        /\ a[i] < i + n - k
        /\ \A m \in (i + 1)..(k - 1) : a[m] = m + n - k
        /\ \A m \in 0..(i - 1) : b[m] = a[m]
        /\ b[i] = a[i] + 1
        /\ \A m \in (i + 1)..(k - 1) : b[m] = b[m - 1] + 1

\* C25: lib.rs Combinations over a source that delivers n >= K items without
\* interruption emits the strictly ascending index tuples over 0..n-1 in
\* lexicographic order: the first is (0, .., K-1), each later one is the
\* lexicographic successor of the one before it among the K-subsets of 0..n-1
\* (its rightmost incrementable index incremented, the indices to its right
\* reset to consecutive values), each tuple holds the items at its indices, and
\* when a pull has returned None exactly C(n,K) tuples were emitted; so each is
\* emitted once and every later pull returns None.  For the source 1..5 (the
\* items 1, 2, 3, 4) and K = 3 the output is [1,2,3], [1,2,4], [1,3,4], [2,3,4].
C25_EagerLexOrder ==
    EagerRun =>
        LET n == Len(src)
            j == Len(out)
        IN  /\ j <= Binomial(n, K)
            /\ last = "none" => j = Binomial(n, K)
            /\ j >= 1 =>
                   /\ DOMAIN out[j].idx = 0..(K - 1)
                   /\ Ascending(out[j].idx)
                   /\ TupleSet(out[j].idx) \subseteq 0..(Len(combs.buffer) - 1)
                   /\ \A i \in 0..(K - 1) : out[j].val[i] = src[out[j].idx[i] + 1]
            /\ j = 1 => out[j].idx = make_array_identity(K)
            /\ j >= 2 =>
                   LET A == TupleSet(out[j - 1].idx)
                       B == TupleSet(out[j].idx)
                   IN  /\ LexLess(A, B)
                       /\ \A X \in KSubsets(n, K) : ~(LexLess(A, X) /\ LexLess(X, B))
                       /\ RightmostIncremented(out[j - 1].idx, out[j].idx, K, n)
            /\ (src = <<1, 2, 3, 4>> /\ K = 3 /\ last = "none") =>
                   OutVals = << <<1, 2, 3>>, <<1, 2, 4>>, <<1, 3, 4>>, <<2, 3, 4>> >>

\* Width 2 over five items that arrived while the adapter was iterating: all
\* ten tuples were emitted, the last pulls returned None.
C25_Witness ==
    /\ EagerRun
    /\ K = 2
    /\ Len(src) = 5
    /\ Len(out) = 10
    /\ OutVals[4] = <<1, 5>>
    /\ OutVals[5] = <<2, 3>>
    /\ nones = MaxNones
    /\ last = "none"

\* How many tuples next() of lib.rs Combinations will still return, over a
\* source that reports its exact length: C(n,K) less those returned.
CombsLeft == Binomial(Len(src), K) - Len(out)

\* C26: at every point of an iteration of lib.rs Combinations, size_hint()
\* returns valid bounds: the lower bound is at most the number of tuples next()
\* will still return, and the upper bound, when there is one, is at least that
\* number; also for K = 0 after the empty tuple was returned.
C26_ValidHint ==
    (mode = "LibCombinations" /\ hint # None) =>
        LET lower == hint[1][1][1]
            upper == hint[1][1][2]
        IN  /\ lower <= CombsLeft
            /\ upper # None => upper[1] >= CombsLeft

\* What the code returns at every point of the iteration: the count of all the
\* tuples, C(n,K), those already returned included.
C26_HintCountsReturned ==
    (mode = "LibCombinations" /\ hint # None) =>
        hint = Some(Some(<<Binomial(Len(src), K), Some(Binomial(Len(src), K))>>))

\* K = 0 after the empty tuple was returned: nothing is left, the hint says one.
C26_Asked ==
    /\ mode = "LibCombinations"
    /\ K = 0
    /\ Len(out) = 1
    /\ CombsLeft = 0
    /\ hint = Some(Some(<<1, Some(1)>>))

\* What res holds before round i of the loop of combination_count(n, _).
ResBeforeRound(n, i) == combination_count_loop(n, i, 0, 1)

\* C27: combination_count(n, k) returns Some(C(n,k)) for all small n and k:
\* Some(0) when n < k, Some(1) when k = 0 (also for n = 0); and in every round
\* i of its loop the product res * (n - i) is a multiple of i + 1, so that the
\* division by i + 1 is exact.
C27_CombinationCount ==
    (mode = "combination_count" /\ count.res # None) =>
        LET n == count.n
            k == count.k
            rounds == IF n < k THEN 0 ELSE IF k <= n - k THEN k ELSE n - k
        IN  /\ count.res = Some(Some(Binomial(n, k)))
            /\ n < k => count.res = Some(Some(0))
            /\ k = 0 => count.res = Some(Some(1))
            /\ \A i \in 0..(rounds - 1) :
                   /\ ResBeforeRound(n, i) = Some(Binomial(n, i))
                   /\ (ResBeforeRound(n, i)[1] * (n - i)) % (i + 1) = 0

\* combination_count(7, 4) returned Some(35), after three rounds whose
\* divisions were by 1, 2 and 3.
C27_Witness ==
    /\ mode = "combination_count"
    /\ count.n = 7
    /\ count.k = 4
    /\ count.res = Some(Some(35))
    /\ ResBeforeRound(7, 2) = Some(21)

====
